---- MODULE Spec2Model ----
(***************************************************************************)
(* ArtifactDB identifiers: the AID codec (aid.py) and the GPRN parser,     *)
(* generator, parent/lineage resolver and LCA resolver (gprn.py).          *)
(*                                                                         *)
(* A Python str is a sequence of one-character strings, so that split,     *)
(* join, strip and the regular expressions of the source are computed      *)
(* character by character.  Python's None is the value None below, which   *)
(* is no string.                                                           *)
(***************************************************************************)
EXTENDS Integers, Sequences, FiniteSets, TLC

VARIABLES
  op,        \* the operation called
  input,     \* its str argument
  deep,      \* the deep argument of get_parents and get_lineage
  pc,        \* where the call stands: call, ..., done or raised
  parsed,    \* what parse returned
  gen,       \* what generate returned
  round,     \* how many times generate(parse(.)) has been applied
  first,     \* what generate returned the first time
  resid,     \* what parse_resource_id returned
  cur,       \* the gprn argument of the current (recursive) call
  parents,   \* the parents argument of the current call of get_parents
  steps,     \* parents appended so far
  ret,       \* what get_parents or get_lineage returned
  unpacked,  \* what unpack_id returned
  packed,    \* what pack_id returned
  gprns,     \* the gprns argument of the current call of lca
  inner,     \* the inner argument of the current call of lca
  outer,     \* the gprns argument of the outermost call of lca
  lcaret     \* what lca returned

vars == <<op, input, deep, pc, parsed, gen, round, first, resid, cur, parents,
          steps, ret, unpacked, packed, gprns, inner, outer, lcaret>>

\* ---------------------------------------------------------------- bounds
\* longest path of an AID input, in characters
MaxPathLen == 3
\* most "@<version>" suffixes on a project resource-id
MaxAts == 3
\* longest list handed to lca
MaxList == 3
\* applications of generate(parse(.)) in a row
MaxRounds == 2

\* ------------------------------------------------------- string literals
None == <<"None">>
\* a raised exception where a str is expected: no str either
Exc(e) == <<e>>
IsExc(v) == v \in {Exc("FormatError"), Exc("UnsupportedTypeID"), Exc("GPRNError"),
                   Exc("MalformedID"), Exc("TypeError"), Exc("AttributeError")}
EmptyStr == <<>>
COLON == ":"
AT == "@"
s_gprn == <<"g","p","r","n">>
s_prd == <<"p","r","d">>
s_dev == <<"d","e","v">>
s_svc == <<"s","v","c">>
s_ph == <<"p","h">>
s_x == <<"x">>
s_artifact == <<"a","r","t","i","f","a","c","t">>
s_project == <<"p","r","o","j","e","c","t">>
s_doc == <<"d","o","c">>
s_changelog == <<"c","h","a","n","g","e","l","o","g">>
s_backup == <<"b","a","c","k","u","p">>
s_foo == <<"f","o","o">>
s_root == <<"r","o","o","t">>
s_environment == <<"e","n","v","i","r","o","n","m","e","n","t">>
s_service == <<"s","e","r","v","i","c","e">>
s_projects == <<"p","r","o","j","e","c","t","s">>
s_version == <<"v","e","r","s","i","o","n">>

\* gprn.py:16
VALID_TYPE_IDS == {s_artifact, s_project, s_doc, s_changelog, s_backup}

\* the characters the class [.\w\d-] of aid.py's patterns accepts (ASCII)
WordChars ==
  {"a","b","c","d","e","f","g","h","i","j","k","l","m","n","o","p","q","r",
   "s","t","u","v","w","x","y","z",
   "A","B","C","D","E","F","G","H","I","J","K","L","M","N","O","P","Q","R",
   "S","T","U","V","W","X","Y","Z",
   "0","1","2","3","4","5","6","7","8","9","_"}
VersionChars == WordChars \cup {".", "-"}

\* ------------------------------------------------------- str operations
\* Python truthiness of a str-or-None value
Truthy(v) == v # None /\ v # EmptyStr

Contains(s, c) == \E i \in 1..Len(s) : s[i] = c

Count(s, c) == Cardinality({i \in 1..Len(s) : s[i] = c})

\* index of the first c in s at or after position from, 0 when there is none
Find(s, c, from) ==
  IF \E i \in from..Len(s) : s[i] = c
  THEN CHOOSE i \in from..Len(s) : s[i] = c /\ \A j \in from..(i-1) : s[j] # c
  ELSE 0

\* index of the last c in s, 0 when there is none
RFind(s, c) ==
  IF Contains(s, c)
  THEN CHOOSE i \in 1..Len(s) : s[i] = c /\ \A j \in (i+1)..Len(s) : s[j] # c
  ELSE 0

StartsWith(s, p) == Len(s) >= Len(p) /\ SubSeq(s, 1, Len(p)) = p

\* str.split(sep)
RECURSIVE split(_, _)
RECURSIVE SplitAt(_, _, _)
split(s, sep) == SplitAt(s, sep, Find(s, sep, 1))
SplitAt(s, sep, i) ==
  IF i = 0 THEN <<s>>
  ELSE <<SubSeq(s, 1, i-1)>> \o split(SubSeq(s, i+1, Len(s)), sep)

\* sep.join(parts), every part a str
RECURSIVE join(_, _)
join(parts, sep) ==
  IF parts = <<>> THEN EmptyStr
  ELSE IF Len(parts) = 1 THEN parts[1]
  ELSE parts[1] \o <<sep>> \o join(Tail(parts), sep)

\* str.rstrip(c)
RECURSIVE rstrip(_, _)
rstrip(s, c) ==
  IF s # <<>> /\ s[Len(s)] = c THEN rstrip(SubSeq(s, 1, Len(s)-1), c) ELSE s

\* str.lstrip(c)
RECURSIVE lstrip(_, _)
lstrip(s, c) ==
  IF s # <<>> /\ s[1] = c THEN lstrip(Tail(s), c) ELSE s

\* str.strip(c)
strip(s, c) == rstrip(lstrip(s, c), c)

\* the longest prefix of s made of version characters: the greedy [.\w\d-]+
RECURSIVE VersionRun(_)
VersionRun(s) ==
  IF s # <<>> /\ s[1] \in VersionChars THEN <<s[1]>> \o VersionRun(Tail(s))
  ELSE EmptyStr

\* positions of s holding an "@" that a version character follows
AtVersion(s) ==
  {i \in 1..(Len(s)-1) : s[i] = AT /\ s[i+1] \in VersionChars}

Min(S) == CHOOSE x \in S : \A y \in S : x <= y
Max(S) == CHOOSE x \in S : \A y \in S : x >= y

\* ------------------------------------------------------------ aid.py
\* the result of unpack_id and of parse_resource_id: a dict (an absent key is
\* None), a raw str, or a raised exception
Dict(p, pa, v) ==
  [kind |-> "dict", project_id |-> p, path |-> pa, version |-> v,
   str |-> None, err |-> "none"]
EmptyDict == Dict(None, None, None)
RawStr(s) ==
  [kind |-> "str", project_id |-> None, path |-> None, version |-> None,
   str |-> s, err |-> "none"]
Raised(e) ==
  [kind |-> "raise", project_id |-> None, path |-> None, version |-> None,
   str |-> None, err |-> e]

\* the three groups of a match: the asserts of unpack_id
Groups(project_id, path, version) ==
  IF project_id = EmptyStr \/ path = EmptyStr \/ version = EmptyStr
  THEN Raised("MalformedID")
  ELSE Dict(project_id, path, version)

\* the groups when the ":" at c ends project_id and the "@" at a ends path;
\* c or a is 0 when the pattern does not match
Match(id, c, a) ==
  IF c = 0 \/ a = 0 THEN Raised("MalformedID")
  ELSE Groups(SubSeq(id, 1, c-1), SubSeq(id, c+1, a-1),
              VersionRun(SubSeq(id, a+1, Len(id))))

\* the first and the last "@" after position c that a version character
\* follows, 0 when there is none
FirstAt(id, c) ==
  IF \E i \in AtVersion(id) : i > c
  THEN Min({i \in AtVersion(id) : i > c}) ELSE 0
LastAt(id, c) ==
  IF \E i \in AtVersion(id) : i > c
  THEN Max({i \in AtVersion(id) : i > c}) ELSE 0

\* the lazy (.*?) before "@": the path ends at the first "@" that matches
PathEnd(id, c) == IF c = 0 THEN 0 ELSE FirstAt(id, c)

\* match(r"^(.*?):(.*?)@([.\w\d-]+)", _id): the first ":" ends project_id, the
\* first "@" after it that a version character follows ends path, and version
\* is the run of version characters after that "@"; what follows is not matched
unpack_first(id, c) == Match(id, c, PathEnd(id, c))
unpack_plain(id) == unpack_first(id, Find(id, COLON, 1))

\* the position of the n-th ":" of s, 0 when there are fewer
RECURSIVE NthColon(_, _, _)
RECURSIVE NthColonAt(_, _, _)
NthColon(s, n, from) == NthColonAt(s, n, Find(s, COLON, from))
NthColonAt(s, n, i) ==
  IF i = 0 THEN 0 ELSE IF n = 1 THEN i ELSE NthColon(s, n-1, i+1)

\* match(r"^(gprn(:.*?){5}.*?):(.*)@([.\w\d-]+)", _id): the sixth ":" ends
\* project_id, the greedy (.*) runs to the last "@" that a version character
\* follows
unpack_sixth(id, c) == Match(id, c, IF c = 0 THEN 0 ELSE LastAt(id, c))
unpack_nested(id) == unpack_sixth(id, NthColon(id, 6, 1))

unpack_id(id) ==
  IF StartsWith(id, s_gprn \o <<COLON>>) THEN unpack_nested(id)
  ELSE unpack_plain(id)

\* f"{project_id}:{path}@{version}"
pack_id(parts) ==
  IF parts.project_id = None \/ parts.path = None \/ parts.version = None
  THEN Exc("MalformedID")
  ELSE parts.project_id \o <<COLON>> \o parts.path \o <<AT>> \o parts.version

\* ------------------------------------------------------------ gprn.py
\* the dict parse returns, or the exception it raises
Parsed(e, s, p, t, r) ==
  [err |-> "none", environment |-> e, service |-> s, placeholder |-> p,
   type_id |-> t, resource_id |-> r]
ParseError(e) ==
  [err |-> e, environment |-> None, service |-> None, placeholder |-> None,
   type_id |-> None, resource_id |-> None]

\* parts and parts.pop(0) for the k-th token: the token, or the empty list
Pop(parts, k) == IF Len(parts) >= k THEN parts[k] ELSE EmptyStr

\* parts and ":".join(parts), once prefix and four fields are popped
Remaining(parts) ==
  IF Len(parts) >= 6 THEN join(SubSeq(parts, 6, Len(parts)), COLON)
  ELSE EmptyStr

\* a mutant of parse_fields: a resource-id needs no type-id
parse_fields_lax(env, svc, ph, type_id, res_id) ==
  IF ~Truthy(svc) THEN ParseError("FormatError")
  ELSE Parsed(IF Truthy(env) THEN env ELSE s_prd,
              svc,
              IF Truthy(ph) THEN ph ELSE None,
              IF Truthy(type_id) THEN type_id ELSE None,
              IF Truthy(res_id) THEN res_id ELSE None)

\* parse from the popped fields on
parse_fields(env, svc, ph, type_id, res_id) ==
  IF ~Truthy(svc) THEN ParseError("FormatError")
  ELSE IF Truthy(res_id) /\ ~Truthy(type_id) THEN ParseError("FormatError")
  ELSE Parsed(IF Truthy(env) THEN env ELSE s_prd,
              svc,
              IF Truthy(ph) THEN ph ELSE None,
              IF Truthy(type_id) THEN type_id ELSE None,
              IF Truthy(res_id) THEN res_id ELSE None)

\* parse from gprn.split(":") on
parse_parts(parts) ==
  IF parts[1] # s_gprn THEN ParseError("FormatError")
  ELSE IF Len(parts) = 2 THEN Parsed(parts[2], None, None, None, None)
  ELSE parse_fields(Pop(parts, 2), Pop(parts, 3), Pop(parts, 4),
                    Pop(parts, 5), Remaining(parts))

parse(gprn) == parse_parts(split(gprn, COLON))

\* res_id.rsplit("@", 1) as {project_id, version}, a the last "@"
SplitVersion(res_id, a) ==
  Dict(SubSeq(res_id, 1, a-1), None, SubSeq(res_id, a+1, Len(res_id)))

parse_resource_id(type_id, res_id) ==
  IF Truthy(res_id)
  THEN IF type_id = s_artifact THEN unpack_id(res_id)
       ELSE IF type_id \in {s_project, s_changelog}
       THEN IF Contains(res_id, AT)
            THEN SplitVersion(res_id, RFind(res_id, AT))
            ELSE Dict(res_id, None, None)
       ELSE RawStr(res_id)
  ELSE EmptyDict

\* bool(resource_id) of a parse_resource_id result
TruthyRes(r) ==
  \/ r.kind = "dict" /\ r.project_id # None
  \/ r.kind = "str" /\ Truthy(r.str)

\* the slots of generate's template (0-based, as in the source)
idx == [environment |-> 1, placeholder |-> 3, type_id |-> 4, resource_id |-> 5]

\* a mutant of normalize: prd is written out
normalize_not(dgprn) == dgprn

\* dgprn after generate's normalisation of prd
normalize(dgprn) ==
  IF dgprn.environment = s_prd THEN [dgprn EXCEPT !.environment = EmptyStr]
  ELSE dgprn

\* a mutant of Template: service and environment take each other's slot
Template_swapped(d) ==
  [i \in 1..6 |->
     IF i = 1 THEN s_gprn
     ELSE IF i = 2 THEN d.service
     ELSE IF i = 3 /\ Truthy(d.environment) THEN d.environment
     ELSE IF i = idx.placeholder + 1 /\ Truthy(d.placeholder)
     THEN d.placeholder
     ELSE IF i = idx.type_id + 1 /\ Truthy(d.type_id) THEN d.type_id
     ELSE IF i = idx.resource_id + 1 /\ Truthy(d.resource_id)
     THEN d.resource_id
     ELSE EmptyStr]

\* lgprn = ["gprn", "", service, "", "", ""] with every set field in its slot
Template(d) ==
  [i \in 1..6 |->
     IF i = idx.environment + 1 /\ Truthy(d.environment) THEN d.environment
     ELSE IF i = idx.placeholder + 1 /\ Truthy(d.placeholder)
     THEN d.placeholder
     ELSE IF i = idx.type_id + 1 /\ Truthy(d.type_id) THEN d.type_id
     ELSE IF i = idx.resource_id + 1 /\ Truthy(d.resource_id)
     THEN d.resource_id
     ELSE <<s_gprn, EmptyStr, d.service, EmptyStr, EmptyStr, EmptyStr>>[i]]

\* generate once prd is normalised; joining None raises TypeError, which
\* generate raises again as GPRNError
render(d) ==
  IF d.service = None THEN Exc("GPRNError")
  ELSE rstrip(join(Template(d), COLON), COLON)

generate(dgprn) == render(normalize(dgprn))

\* validate once parse_resource_id has run
checked(p, r) == IF r.kind = "raise" THEN ParseError(r.err) ELSE p

\* validate once parse has run
validated(p) ==
  IF p.err # "none" THEN p
  ELSE IF Truthy(p.type_id) /\ p.type_id \notin VALID_TYPE_IDS
  THEN ParseError("UnsupportedTypeID")
  ELSE IF Truthy(p.type_id) /\ Truthy(p.resource_id)
  THEN checked(p, parse_resource_id(p.type_id, p.resource_id))
  ELSE p

\* the dict validate returns (parse's, untouched), or the exception it raises;
\* no gprn_cfg is passed by get_parents
validate(gprn) == validated(parse(gprn))

\* a parent entry {'type': typ, 'gprn': parent}
Entry(typ, g) == [type |-> typ, gprn |-> g]

\* a list of parent entries returned, or the exception raised instead
Returned(l) == [err |-> "none", list |-> l]
Raise(e) == [err |-> e, list |-> <<>>]

\* a mutant of TypeOf: a changelog or doc with a resource-id is no version
TypeOf_plain(tokens, p, found_version) ==
  IF Len(tokens) <= 2
  THEN IF tokens[Len(tokens)] = s_gprn THEN s_root ELSE s_environment
  ELSE IF p.type_id = s_project
  THEN IF Truthy(p.resource_id)
       THEN IF ~found_version /\ Contains(p.resource_id, AT)
            THEN s_version ELSE s_project
       ELSE s_projects
  ELSE IF ~Truthy(p.type_id) THEN s_service
  ELSE p.type_id

\* the tag prepare_parents_list infers for one parent: tokens its split, p
\* its parse (read when there are more than two tokens)
TypeOf(tokens, p, found_version) ==
  IF Len(tokens) <= 2
  THEN IF tokens[Len(tokens)] = s_gprn THEN s_root ELSE s_environment
  ELSE IF p.type_id = s_project
  THEN IF Truthy(p.resource_id)
       THEN IF ~found_version /\ Contains(p.resource_id, AT)
            THEN s_version ELSE s_project
       ELSE s_projects
  ELSE IF p.type_id \in {s_changelog, s_doc} /\ Truthy(p.resource_id)
  THEN s_version
  ELSE IF ~Truthy(p.type_id)
  THEN IF Truthy(p.service) THEN s_service
       ELSE IF Truthy(p.environment) THEN s_environment ELSE None
  ELSE p.type_id

\* found_version after the parent has been classified
FoundVersion(tokens, p, found_version) ==
  \/ found_version
  \/ /\ Len(tokens) > 2
     /\ p.type_id = s_project
     /\ Truthy(p.resource_id)
     /\ Contains(p.resource_id, AT)

\* the loop of prepare_parents_list from the i-th parent on
RECURSIVE PrepareFrom(_, _, _, _, _)
RECURSIVE PrepareOne(_, _, _, _, _, _, _)
RECURSIVE PrepareTagged(_, _, _, _, _, _)
PrepareFrom(ps, i, parent_list, by_types, found_version) ==
  IF i > Len(ps) THEN Returned(parent_list)
  ELSE PrepareOne(ps, i, parent_list, by_types, found_version,
                  split(ps[i], COLON), parse(ps[i]))
PrepareOne(ps, i, parent_list, by_types, found_version, tokens, p) ==
  IF Len(tokens) > 2 /\ p.err # "none" THEN Raise(p.err)
  ELSE PrepareTagged(ps, i, parent_list, by_types,
                     TypeOf(tokens, p, found_version),
                     FoundVersion(tokens, p, found_version))
PrepareTagged(ps, i, parent_list, by_types, typ, fv) ==
  IF typ \in by_types
  THEN PrepareFrom(ps, i+1, parent_list, by_types, fv)
  ELSE PrepareFrom(ps, i+1, Append(parent_list, Entry(typ, ps[i])),
                   by_types \cup {typ}, fv)

\* iterating None raises TypeError
prepare_parents_list(ps) ==
  IF ps = None THEN Raise("TypeError")
  ELSE PrepareFrom(ps, 1, <<>>, {}, FALSE)

\* the stop condition of get_parents
Stop(gprn, dp) ==
  IF dp THEN ~Contains(gprn, COLON) ELSE Len(split(gprn, COLON)) < 4

\* the fallback parent: one token less, no ":" at either end
FallbackOf(tokens) ==
  strip(join(SubSeq(tokens, 1, Len(tokens)-1), COLON), COLON)
Fallback(gprn) == FallbackOf(split(gprn, COLON))

\* a mutant of Rewritten: the version is dropped together with the path
Rewritten_skip(p, resource_id) ==
  IF Truthy(resource_id.path) \/ Truthy(resource_id.version)
  THEN [p EXCEPT !.type_id = IF @ = s_artifact THEN s_project ELSE @,
                 !.resource_id = resource_id.project_id]
  ELSE [p EXCEPT !.type_id = IF @ = s_artifact THEN s_project ELSE @,
                 !.resource_id = None]

\* a mutant of Rewritten: the version is never dropped
Rewritten_keep(p, resource_id) ==
  IF Truthy(resource_id.path) \/ Truthy(resource_id.version)
  THEN [p EXCEPT !.type_id = IF @ = s_artifact THEN s_project ELSE @,
                 !.resource_id =
                   resource_id.project_id \o <<AT>> \o resource_id.version]
  ELSE [p EXCEPT !.type_id = IF @ = s_artifact THEN s_project ELSE @,
                 !.resource_id = None]

\* parsed, with the type-id and resource-id of the parent (resource_id a
\* non-empty dict)
Rewritten(p, resource_id) ==
  IF Truthy(resource_id.path)
  THEN [p EXCEPT !.type_id = IF @ = s_artifact THEN s_project ELSE @,
                 !.resource_id =
                   resource_id.project_id \o <<AT>> \o resource_id.version]
  ELSE IF Truthy(resource_id.version)
  THEN [p EXCEPT !.type_id = IF @ = s_artifact THEN s_project ELSE @,
                 !.resource_id = resource_id.project_id]
  ELSE [p EXCEPT !.type_id = IF @ = s_artifact THEN s_project ELSE @,
                 !.resource_id = None]

\* if not parent: the fallback
OrFallback(parent, gprn) ==
  IF IsExc(parent) \/ Truthy(parent) THEN parent ELSE Fallback(gprn)

\* get_parents from resource_id = parse_resource_id(...) on
ParentFrom(gprn, p, resource_id) ==
  IF ~TruthyRes(resource_id) THEN Fallback(gprn)
  ELSE IF resource_id.kind = "str" THEN Exc("AttributeError")
  ELSE OrFallback(generate(Rewritten(p, resource_id)), gprn)

\* get_parents from parsed = validate(gprn) on
ParentOf(gprn, p) ==
  IF p.err # "none" THEN Exc(p.err)
  ELSE ParentFrom(gprn, p, parse_resource_id(p.type_id, p.resource_id))

\* one call of get_parents past its stop condition: the parent it appends,
\* or the exception it raises
Parent(gprn) == ParentOf(gprn, validate(gprn))

\* parents.append(parent), parents None at the first call
Appended(ps, parent) == IF ps = None THEN <<parent>> ELSE Append(ps, parent)

RECURSIVE get_parents(_, _, _)
RECURSIVE get_parents_on(_, _, _)
get_parents(gprn, ps, dp) ==
  IF Stop(gprn, dp) THEN prepare_parents_list(ps)
  ELSE get_parents_on(Parent(gprn), ps, dp)
get_parents_on(parent, ps, dp) ==
  IF IsExc(parent) THEN Raise(parent[1])
  ELSE get_parents(parent, Appended(ps, parent), dp)

\* prepare_parents_list([gprn]) + parents
Injected(self, ps) ==
  IF self.err # "none" THEN self ELSE Returned(self.list \o ps.list)

\* get_lineage once get_parents has returned ps
LineageFrom(gprn, ps) ==
  IF ps.err # "none" THEN ps
  ELSE Injected(prepare_parents_list(<<gprn>>), ps)

get_lineage(gprn, dp) == LineageFrom(gprn, get_parents(gprn, None, dp))

\* set(gprns)
Distinct(l) == {l[i] : i \in 1..Len(l)}

\* the deep lineage of every input: the dict lineages, when no call raised
LineagesOf(l) == [g \in Distinct(l) |-> get_lineage(g, TRUE)]

\* float("inf"), which no length reaches
Infinity == -1
LessEq(n, min_len) == min_len = Infinity \/ n <= min_len
Less(n, min_len) == min_len = Infinity \/ n < min_len

\* the list shortests after the loop over gprns[i..]
RECURSIVE Shortests(_, _, _, _, _)
RECURSIVE ShortestsOn(_, _, _, _, _, _)
Shortests(l, lin, i, min_len, shortests) ==
  IF i > Len(l) THEN shortests
  ELSE ShortestsOn(l, lin, i, min_len, shortests, Len(lin[l[i]].list))
ShortestsOn(l, lin, i, min_len, shortests, n) ==
  IF LessEq(n, min_len)
  THEN IF shortests # <<>> /\ Less(n, min_len)
       THEN Shortests(l, lin, i+1, n, <<l[i]>>)
       ELSE Shortests(l, lin, i+1, n, Append(shortests, l[i]))
  ELSE Shortests(l, lin, i+1, min_len, shortests)

\* elem in lineage
InLineage(elem, lineage) == \E k \in 1..Len(lineage) : lineage[k] = elem

\* the entries of shortest_lineage found in the lineage of another input
Hits(shortest_lineage, others) ==
  {k \in 1..Len(shortest_lineage) :
     \E o \in others : InLineage(shortest_lineage[k], o)}

\* a mutant of Walk: the walk stops at the first entry found from the root
Walk_root(shortest_lineage, others) == shortest_lineage[Len(shortest_lineage)]

\* the entry lca_gprn after the walk from the root end of shortest_lineage
\* to its leaf end: the last assignment is the one nearest to the leaf, and
\* lca_gprn starts as the root
Walk(shortest_lineage, others) ==
  IF Hits(shortest_lineage, others) = {}
  THEN shortest_lineage[Len(shortest_lineage)]
  ELSE shortest_lineage[Min(Hits(shortest_lineage, others))]

\* what one call lca(gprns, inner) does: it returns a GPRN, raises, or calls
\* itself on shortests with inner=True and returns what that call returns
LcaReturn(v) == [recurse |-> FALSE, val |-> v, shortests |-> <<>>]
LcaRecurse(l) == [recurse |-> TRUE, val |-> None, shortests |-> l]

\* the lineages left once that of shortest is popped
Others(l, lin, shortest) == {lin[g].list : g \in Distinct(l) \ {shortest}}

\* lca from the end of the loop on
LcaWalk(l, is_inner, lin, shortests) ==
  IF ~is_inner /\ Len(shortests) > 1 THEN LcaRecurse(shortests)
  ELSE LcaReturn(Walk(lin[shortests[1]].list,
                      Others(l, lin, shortests[1])).gprn)

\* lca's loop, lin the get_lineage results in the order of the calls: the
\* first exception is raised
LcaLoop(l, is_inner, lin) ==
  IF \E g \in Distinct(l) : lin[g].err # "none"
  THEN LcaReturn(Exc(lin[l[Min({k \in 1..Len(l) : lin[l[k]].err # "none"})]].err))
  ELSE LcaWalk(l, is_inner, lin, Shortests(l, lin, 1, Infinity, <<>>))

lca(l, is_inner) ==
  IF Cardinality(Distinct(l)) = 1 THEN LcaReturn(l[1])
  ELSE LcaLoop(l, is_inner, LineagesOf(l))

\* ---------------------------------------------------------------- inputs
Str(tokens) == join(tokens, COLON)

\* "A", "A@1", "A@1@1", ...: a project id with n "@<version>" suffixes
RECURSIVE AtSuffix(_)
AtSuffix(n) == IF n = 0 THEN <<"A">> ELSE AtSuffix(n-1) \o <<AT, "1">>

ProjectResIds ==
  {AtSuffix(n) : n \in 0..MaxAts} \cup {<<AT, "1">>, <<"A", AT>>}
ArtifactResIds ==
  {AtSuffix(n) \o <<COLON, "f", AT, "1">> : n \in 0..(MaxAts-1)}
    \cup {s_gprn \o <<COLON, "f", AT, "1">>, <<"A", COLON, "f">>,
          <<"A", COLON, "f", AT, "1", "/", "b">>}
ResIds == {EmptyStr} \cup ProjectResIds \cup ArtifactResIds
Envs == {EmptyStr, s_dev, s_prd, s_gprn}
TypeIds == VALID_TYPE_IDS \cup {EmptyStr, s_foo}

\* GPRNs of every shape, the first k fields of the six, most of them valid
GprnInputs ==
  {Str(SubSeq(<<s_gprn, e, s_svc, ph, t, r>>, 1, k)) :
     e \in Envs, ph \in {EmptyStr, s_ph}, t \in TypeIds, r \in ResIds,
     k \in 1..6}
  \cup {Str(<<s_x, s_dev>>), Str(<<s_x, s_dev, s_svc>>),
        Str(<<s_gprn, s_dev, EmptyStr>>),
        Str(<<s_gprn, s_dev, EmptyStr, s_ph, s_project>>),
        Str(<<s_gprn, s_dev, s_svc, EmptyStr, s_project, EmptyStr>>),
        Str(<<s_gprn, s_dev, s_svc, EmptyStr, EmptyStr, EmptyStr>>),
        EmptyStr}

\* strings over alphabet of length 1..n
StringsUpTo(alphabet, n) == UNION {[1..k -> alphabet] : k \in 1..n}

\* AIDs <project_id>:<path>@<version>, and a few that are none
AidInputs ==
  {<<"P", COLON>> \o path \o <<AT>> \o v :
     path \in StringsUpTo({"a", COLON, AT}, MaxPathLen),
     v \in {<<"1">>, <<"1", ".", "0", "-", "b">>}}
  \cup {EmptyStr, <<"P">>, <<"P", COLON, "a">>, <<COLON, "a", AT, "1">>,
        <<"P", COLON, AT, "1">>, <<"P", COLON, "a", AT>>,
        <<"P", COLON, "a", AT, "1", "/", "b">>,
        Str(<<s_gprn, s_dev, s_svc, EmptyStr, s_project, <<"A", AT, "1">>,
              <<"f", AT, "1">>>>),
        Str(<<s_gprn, <<"f", AT, "1">>>>)}

\* valid GPRNs of one service and one environment
LcaGprns ==
  {Str(<<s_gprn, s_dev, s_svc, EmptyStr, s_artifact,
         <<p, COLON, "f", AT, "1">>>>) : p \in {"A", "B"}}
  \cup {Str(<<s_gprn, s_dev, s_svc, EmptyStr, s_project, <<p, AT, v>>>>) :
          p \in {"A", "B"}, v \in {"1", "2"}}
  \cup {Str(<<s_gprn, s_dev, s_svc, EmptyStr, s_project, <<p>>>>) :
          p \in {"A", "B"}}
  \cup {Str(<<s_gprn, s_dev, s_svc, EmptyStr, s_project>>),
        Str(<<s_gprn, s_dev, s_svc>>)}

LcaInputs == UNION {[1..n -> LcaGprns] : n \in 1..MaxList}

\* ------------------------------------------------------- the state machine
\* Every operation is a synchronous call on its own arguments: Init draws the
\* operation and its arguments, the actions are the steps of the call.
Ops == {"generate_parse", "parse_resource_id", "get_parents", "get_lineage"}

Idle ==
  /\ pc = "call"
  /\ parsed = ParseError("unset")
  /\ gen = None
  /\ round = 0
  /\ first = None
  /\ resid = EmptyDict
  /\ parents = None
  /\ steps = 0
  /\ ret = Raise("unset")
  /\ unpacked = Raised("unset")
  /\ packed = None
  /\ inner = FALSE
  /\ lcaret = None

Init ==
  /\ \/ /\ op \in Ops
        /\ input \in GprnInputs
        /\ deep \in BOOLEAN
     \/ /\ op = "pack_unpack"
        /\ input \in AidInputs
        /\ deep = FALSE
  /\ cur = input
  /\ gprns = <<>>
  /\ outer = <<>>
  /\ Idle

InitLca ==
  /\ op = "lca"
  /\ gprns \in LcaInputs
  /\ outer = gprns
  /\ input = EmptyStr
  /\ deep = TRUE
  /\ cur = EmptyStr
  /\ Idle

\* parse(cur), p what it returns or raises
Parse ==
  /\ op \in {"generate_parse", "parse_resource_id"}
  /\ pc = "call"
  /\ \E p \in {parse(cur)} :
       /\ parsed' = p
       /\ pc' = IF p.err = "none" THEN "parsed" ELSE "raised"
  /\ UNCHANGED <<op, input, deep, gen, round, first, resid, cur, parents,
                 steps, ret, unpacked, packed, gprns, inner, outer,
                 lcaret>>

\* generate(parsed); the dict passed is normalised in place
Generate ==
  /\ op = "generate_parse"
  /\ pc = "parsed"
  /\ \E g \in {generate(parsed)} :
       /\ gen' = g
       /\ first' = IF round = 0 THEN g ELSE first
       /\ pc' = IF IsExc(g) THEN "raised" ELSE "generated"
  /\ parsed' = normalize(parsed)
  /\ round' = round + 1
  /\ UNCHANGED <<op, input, deep, resid, cur, parents, steps, ret, unpacked,
                 packed, gprns, inner, outer,
                 lcaret>>

\* generate(parse(.)) applied to its own result
Again ==
  /\ op = "generate_parse"
  /\ pc = "generated"
  /\ round < MaxRounds
  /\ cur' = gen
  /\ pc' = "call"
  /\ UNCHANGED <<op, input, deep, parsed, gen, round, first, resid, parents,
                 steps, ret, unpacked, packed, gprns, inner, outer,
                 lcaret>>

\* parse_resource_id(parsed["type-id"], parsed["resource-id"])
ParseResourceId ==
  /\ op = "parse_resource_id"
  /\ pc = "parsed"
  /\ \E r \in {parse_resource_id(parsed.type_id, parsed.resource_id)} :
       /\ resid' = r
       /\ pc' = IF r.kind = "raise" THEN "raised" ELSE "done"
  /\ UNCHANGED <<op, input, deep, parsed, gen, round, first, cur, parents,
                 steps, ret, unpacked, packed, gprns, inner, outer,
                 lcaret>>

\* a call of get_parents past its stop condition: it raises, or appends the
\* parent and calls itself on it
GetParentsStep ==
  /\ op \in {"get_parents", "get_lineage"}
  /\ pc = "call"
  /\ ~Stop(cur, deep)
  /\ \E parent \in {Parent(cur)} :
       IF IsExc(parent)
       THEN /\ ret' = Raise(parent[1])
            /\ pc' = "raised"
            /\ UNCHANGED <<cur, parents, steps>>
       ELSE /\ cur' = parent
            /\ parents' = Appended(parents, parent)
            /\ steps' = steps + 1
            /\ UNCHANGED <<ret, pc>>
  /\ UNCHANGED <<op, input, deep, parsed, gen, round, first, resid, unpacked,
                 packed, gprns, inner, outer,
                 lcaret>>

\* the call of get_parents at its stop condition
GetParentsStop ==
  /\ op \in {"get_parents", "get_lineage"}
  /\ pc = "call"
  /\ Stop(cur, deep)
  /\ \E r \in {prepare_parents_list(parents)} :
       /\ ret' = r
       /\ pc' = IF r.err # "none" THEN "raised"
                ELSE IF op = "get_lineage" THEN "parents" ELSE "done"
  /\ UNCHANGED <<op, input, deep, parsed, gen, round, first, resid, cur,
                 parents, steps, unpacked, packed, gprns, inner, outer,
                 lcaret>>

\* get_lineage once get_parents has returned: self is injected
GetLineage ==
  /\ op = "get_lineage"
  /\ pc = "parents"
  /\ \E r \in {LineageFrom(input, ret)} :
       /\ ret' = r
       /\ pc' = IF r.err # "none" THEN "raised" ELSE "done"
  /\ UNCHANGED <<op, input, deep, parsed, gen, round, first, resid, cur,
                 parents, steps, unpacked, packed, gprns, inner, outer,
                 lcaret>>

\* unpack_id(input)
UnpackId ==
  /\ op = "pack_unpack"
  /\ pc = "call"
  /\ \E u \in {unpack_id(input)} :
       /\ unpacked' = u
       /\ pc' = IF u.kind = "raise" THEN "raised" ELSE "unpacked"
  /\ UNCHANGED <<op, input, deep, parsed, gen, round, first, resid, cur,
                 parents, steps, ret, packed, gprns, inner, outer,
                 lcaret>>

\* pack_id(unpacked)
PackId ==
  /\ op = "pack_unpack"
  /\ pc = "unpacked"
  /\ packed' = pack_id(unpacked)
  /\ pc' = "done"
  /\ UNCHANGED <<op, input, deep, parsed, gen, round, first, resid, cur,
                 parents, steps, ret, unpacked, gprns, inner, outer,
                 lcaret>>

\* one call of lca
Lca ==
  /\ op = "lca"
  /\ pc = "call"
  /\ \E r \in {lca(gprns, inner)} :
       IF r.recurse
       THEN /\ gprns' = r.shortests
            /\ inner' = TRUE
            /\ UNCHANGED <<lcaret, pc>>
       ELSE /\ lcaret' = r.val
            /\ pc' = IF IsExc(r.val) THEN "raised" ELSE "done"
            /\ UNCHANGED <<gprns, inner>>
  /\ UNCHANGED <<op, input, deep, parsed, gen, round, first, resid, cur,
                 parents, steps, ret, unpacked, packed, outer>>

Next ==
  \/ Parse
  \/ Generate
  \/ Again
  \/ ParseResourceId
  \/ GetParentsStep
  \/ GetParentsStop
  \/ GetLineage
  \/ UnpackId
  \/ PackId

Spec == Init /\ [][Next]_vars

NextLca == Lca

SpecLca == InitLca /\ [][NextLca]_vars

\* ---------------------------------------------------------------- claims
\* the gprn values of a list of parent entries, in order
Gprns(l) == [k \in 1..Len(l) |-> l[k].gprn]

\* gprn:dev:svc::project:<p>@<v>
ProjectVersion(p, v) ==
  Str(<<s_gprn, s_dev, s_svc, EmptyStr, s_project, <<p, AT, v>>>>)

\* outer is a pair of project-at-version GPRNs of different projects
VersionPair ==
  \E p \in {"A", "B"}, q \in {"A", "B"}, v \in {"1", "2"}, w \in {"1", "2"} :
    p # q /\ outer = <<ProjectVersion(p, v), ProjectVersion(q, w)>>

\* C1: for a list of two or more valid GPRNs of one service and environment,
\* what lca returns is the gprn of an entry of the deep lineage of every
\* element of the list.
C1_LcaInEveryLineage ==
  (op = "lca" /\ pc = "done" /\ Len(outer) >= 2)
    => \A i \in 1..Len(outer) :
         InLineage(lcaret, Gprns(get_lineage(outer[i], TRUE).list))

ArtifactGprn(e, p, path, v) ==
  Str(<<s_gprn, e, s_svc, EmptyStr, s_artifact,
        p \o <<COLON>> \o path \o <<AT>> \o v>>)

\* the ancestors of gprn:<e>:svc::artifact:<p>:<path>@<v>, nearest first
Ancestors(e, p, v, dp) ==
  <<Str(<<s_gprn, e, s_svc, EmptyStr, s_project, p \o <<AT>> \o v>>),
    Str(<<s_gprn, e, s_svc, EmptyStr, s_project, p>>),
    Str(<<s_gprn, e, s_svc, EmptyStr, s_project>>),
    Str(<<s_gprn, e, s_svc>>)>>
  \o IF dp THEN <<Str(<<s_gprn, e>>), s_gprn>> ELSE <<>>

\* get_parents has finished on the artifact GPRN of e, p, path and v
ArtifactCall(e, p, path, v) ==
  /\ op = "get_parents"
  /\ pc \in {"done", "raised"}
  /\ input = ArtifactGprn(e, p, path, v)

AncestorsReturned(e, p, v, dp) ==
  SubSeq(Ancestors(e, p, VersionRun(v), FALSE), 1, 4)
  \o IF ~dp THEN <<>>
     ELSE IF e = EmptyStr THEN <<s_gprn>>
     ELSE IF e = s_gprn THEN <<Str(<<s_gprn, e>>)>>
     ELSE <<Str(<<s_gprn, e>>), s_gprn>>

C4Input ==
  /\ op = "get_parents"
  /\ \E v \in {validate(input)} :
       /\ v.err = "none"
       /\ v.type_id \in {s_artifact, s_project, s_changelog, None}

\* the colon-separated components of a GPRN
Components(g) == Len(split(g, COLON))

\* a call of get_parents that has not returned is at its stop condition or
\* past it: one of the two steps of get_parents can be taken
Running == pc = "call" /\ (Stop(cur, deep) \/ ~Stop(cur, deep))

\* C4: get_parents terminates, and appends at most as many parents as the
\* input has colon-separated components, also when the resource-id holds
\* several "@".  Every step that does not return or raise appends a parent,
\* so the bound on the appended parents is the bound on the run.
C4_StepsAtMostComponents ==
  C4Input => /\ steps <= Components(input)
             /\ (pc \in {"done", "raised"} \/ Running)

\* C4, amended: it terminates, and appends at most as many parents as the
\* input has colon-separated components and "@" characters together.
C4_StepsAtMostComponentsAndAts ==
  C4Input => /\ steps <= Components(input) + Count(input, AT)
             /\ (pc \in {"done", "raised"} \/ Running)

C4_Witness ==
  /\ C4Input
  /\ pc = "done"
  /\ deep
  /\ Count(input, AT) >= 3
  /\ steps > Components(input)

\* the tokens of a canonical GPRN that parse accepts: prefix gprn, an
\* environment token that is not prd, no trailing ":"
Canonical(g) ==
  /\ parse(g).err = "none"
  /\ Len(split(g, COLON)) >= 2
  /\ split(g, COLON)[2] # s_prd
  /\ g[Len(g)] # COLON

\* C5: generate(parse(g)) succeeds and is g for every canonical g that parse
\* accepts, the short form gprn:<env> included.
C5_RoundTrip ==
  (op = "generate_parse" /\ round >= 1 /\ Canonical(input)) => first = input

\* C5, amended: it is g when g has a service; for the short form gprn:<env>
\* generate raises GPRNError.
C5_RoundTripWithService ==
  (op = "generate_parse" /\ round >= 1 /\ Canonical(input))
    => IF Len(split(input, COLON)) = 2 THEN first = Exc("GPRNError")
       ELSE first = input

C5_Witness ==
  /\ op = "generate_parse"
  /\ round = 1
  /\ Canonical(input)
  /\ Len(split(input, COLON)) = 6
  /\ split(input, COLON)[2] = EmptyStr
  /\ first = input

\* s is <project_id>:<path>@<version>: c the ":" after project_id, a the "@"
\* before version, every part non-empty, version of version characters
AidForm(s, c, a) ==
  /\ s[c] = COLON
  /\ s[a] = AT
  /\ 1 < c
  /\ c + 1 < a
  /\ a < Len(s)
  /\ \A k \in (a+1)..Len(s) : s[k] \in VersionChars

WellFormedAid(s) ==
  /\ ~StartsWith(s, s_gprn \o <<COLON>>)
  /\ \E c \in 1..Len(s), a \in 1..Len(s) : AidForm(s, c, a)

\* C6: pack_id(unpack_id(s)) = s for every s = <project_id>:<path>@<version>
\* with non-empty parts, a version of [\w.-] characters and a path that may
\* hold ":" and "@".
C6_PackUnpack ==
  (op = "pack_unpack" /\ pc \in {"done", "raised"} /\ WellFormedAid(input))
    => pc = "done" /\ packed = input

\* C7: parse_resource_id returns {} when the resource-id is empty or the
\* type-id is none of artifact, project, changelog, and get_parents then
\* takes the fallback step instead of failing.
C7_EmptyMapping ==
  /\ (/\ op = "parse_resource_id"
      /\ pc \in {"done", "raised"}
      /\ parsed.err = "none"
      /\ \/ ~Truthy(parsed.resource_id)
         \/ parsed.type_id \notin {s_artifact, s_project, s_changelog})
       => pc = "done" /\ resid = EmptyDict
  /\ (op = "get_parents" /\ pc = "raised") => ret.err # "AttributeError"

\* the six tags of the data model
SixTags ==
  {s_root, s_environment, s_service, s_projects, s_project, s_version}

\* a list of parent entries has been returned
ListReturned ==
  /\ op \in {"get_parents", "get_lineage"}
  /\ pc \in {"parents", "done"}

OwnTypeId(e) ==
  /\ e.type = parse(e.gprn).type_id
  /\ \/ e.type \in {s_artifact, s_backup}
     \/ e.type \in {s_doc, s_changelog} /\ ~Truthy(parse(e.gprn).resource_id)

ParseRaised == pc = "raised" /\ parsed.err \notin {"none", "unset"}

\* parse must raise FormatError on these tokens: a first token that is not
\* gprn; not the two-token form and no service; a resource-id and no type-id
MustRaise(tokens) ==
  \/ tokens[1] # s_gprn
  \/ Len(tokens) # 2 /\ Pop(tokens, 3) = EmptyStr
  \/ Len(tokens) >= 6 /\ Pop(tokens, 5) = EmptyStr
       /\ \E k \in 6..Len(tokens) : Len(tokens) > 6 \/ tokens[k] # EmptyStr

\* C9: parse fails with FormatError or returns a structure whose resource-id
\* is set only if its type-id is; it fails on a wrong prefix, on a missing
\* service outside the short form and on a resource-id without type-id, and
\* returns nothing then.
C9_ParseFormat ==
  (op \in {"generate_parse", "parse_resource_id"} /\ round = 0
     /\ (pc = "parsed" \/ ParseRaised))
    => /\ ParseRaised => parsed = ParseError("FormatError")
       /\ pc = "parsed" => (parsed.resource_id # None => parsed.type_id # None)
       /\ pc = "parsed" => parsed.err = "none"
       /\ MustRaise(split(cur, COLON)) => ParseRaised

C9_Witness ==
  /\ op = "generate_parse"
  /\ ParseRaised
  /\ Len(split(cur, COLON)) = 6
  /\ split(cur, COLON)[1] = s_gprn
  /\ split(cur, COLON)[3] = s_svc
  /\ split(cur, COLON)[5] = EmptyStr

\* C10: when generate(parse(g)) succeeds with h, generate(parse(h)) succeeds
\* and is h.
C10_Idempotent ==
  (op = "generate_parse" /\ round >= 1 /\ ~IsExc(first))
    => /\ pc # "raised"
       /\ round >= 2 => gen = first

C10_Witness ==
  /\ op = "generate_parse"
  /\ round = 2
  /\ pc = "generated"
  /\ split(input, COLON)[2] = s_prd
  /\ gen = first
  /\ gen # input

\* what the call lca(l) returns in the end: the value of the one call, or of
\* the call on shortests with inner=True that it returns
LcaOf(r) == IF r.recurse THEN lca(r.shortests, TRUE).val ELSE r.val
LcaValue(l) == LcaOf(lca(l, FALSE))

\* l with the repeated occurrences removed, the first occurrences kept
RECURSIVE Dedup(_, _)
Dedup(l, seen) ==
  IF l = <<>> THEN <<>>
  ELSE IF l[1] \in seen THEN Dedup(Tail(l), seen)
  ELSE <<l[1]>> \o Dedup(Tail(l), seen \cup {l[1]})

\* C11: lca deduplicates its inputs: on a list with one distinct value it
\* returns that value, and on a list with two or more distinct values it
\* returns what it returns on the list without the repeated occurrences.
C11_Deduplicates ==
  (op = "lca" /\ pc \in {"done", "raised"})
    => IF Cardinality(Distinct(outer)) = 1 THEN lcaret = outer[1]
       ELSE lcaret = LcaValue(Dedup(outer, {}))

\* C11, the part on one distinct value: it is returned.
C11_OneValue ==
  (op = "lca" /\ pc \in {"done", "raised"} /\ Cardinality(Distinct(outer)) = 1)
    => pc = "done" /\ lcaret = outer[1]

====
